---- MODULE Spec2Model ----
(***************************************************************************)
(* Model of login_screen.py: the in-memory CaptchaSession (text, image,    *)
(* created_at, TTL check, case-insensitive verification) and the LoginApp  *)
(* handlers that drive it (_new_captcha, _autofill_demo, _on_login).       *)
(*                                                                         *)
(* Python strings that the code inspects character by character (strip,   *)
(* upper, random.choice) are sequences of one-character strings.  An       *)
(* optional value is None (the empty tuple) or Some(x) (a 1-tuple), so     *)
(* that None, the empty string and the number 0 stay three different       *)
(* things, as they are for Python's truth test.                            *)
(***************************************************************************)
EXTENDS Integers, Sequences, FiniteSets, TLC

VARIABLES text, image, created_at,
          username_var, password_var, captcha_var, running, now, ticks, last,
          guesses

vars == <<text, image, created_at, username_var, password_var, captcha_var,
          running, now, ticks, last, guesses>>

session == <<text, image, created_at>>

\* ------------------------------------------------------------------
\* Bounds of the model
\* ------------------------------------------------------------------
\* number of sampled outputs of the random source used for challenge text
MaxSeed == 2
\* number of clock advances in one behaviour
MaxTicks == 2
\* reading of time.time() when the session is constructed (positive: the
\* wall clock is well past the epoch)
InitTime == 1

\* ------------------------------------------------------------------
\* Optional values and Python truthiness
\* ------------------------------------------------------------------
None == <<>>
Some(x) == <<x>>
Val(o) == o[1]

\* `not self.text` : None and the empty string are falsy
TruthyStr(o) == o # None /\ Val(o) # <<>>
\* `not self.created_at` : None and 0.0 are falsy
TruthyNum(o) == o # None /\ Val(o) # 0

\* ------------------------------------------------------------------
\* Configuration
\* ------------------------------------------------------------------
CAPTCHA_LENGTH == 5
CAPTCHA_WIDTH == 260
CAPTCHA_HEIGHT == 90
\* faulty variant: a TTL of one minute
CAPTCHA_TTL_SECONDS_Short == CAPTCHA_LENGTH * 12
CAPTCHA_TTL_SECONDS == 120

ascii_uppercase == <<"A","B","C","D","E","F","G","H","I","J","K","L","M",
                     "N","O","P","Q","R","S","T","U","V","W","X","Y","Z">>
ascii_lowercase == <<"a","b","c","d","e","f","g","h","i","j","k","l","m",
                     "n","o","p","q","r","s","t","u","v","w","x","y","z">>
digits == <<"0","1","2","3","4","5","6","7","8","9">>
\* characters str.strip() removes
whitespace == {" ", "\t", "\n"}

Range(s) == {s[i] : i \in 1..Len(s)}

\* ALLOWED_CHARS = ''.join(ch for ch in (ascii_uppercase + digits)
\*                         if ch not in "0O1IJL")
\* faulty variant: the ambiguous characters are kept
ALLOWED_CHARS_NoFilter == ascii_uppercase \o digits
ALLOWED_CHARS == SelectSeq(ascii_uppercase \o digits,
                           LAMBDA ch : ch \notin {"0","O","1","I","J","L"})

\* ------------------------------------------------------------------
\* String helpers (str.strip, str.upper)
\* ------------------------------------------------------------------
RECURSIVE lstrip(_)
lstrip(s) == IF s # <<>> /\ Head(s) \in whitespace THEN lstrip(Tail(s)) ELSE s

RECURSIVE rstrip(_)
rstrip(s) == IF s # <<>> /\ s[Len(s)] \in whitespace
             THEN rstrip(SubSeq(s, 1, Len(s) - 1)) ELSE s

\* faulty variant: nothing is removed
strip_NoOp(s) == s
strip(s) == rstrip(lstrip(s))

\* the case mappings of the ASCII letters; every other character maps to
\* itself
to_upper == [c \in Range(ascii_lowercase) |->
               ascii_uppercase[CHOOSE i \in 1..26 : ascii_lowercase[i] = c]]
to_lower == [c \in Range(ascii_uppercase) |->
               ascii_lowercase[CHOOSE i \in 1..26 : ascii_uppercase[i] = c]]

upper_ch(c) == IF c \in DOMAIN to_upper THEN to_upper[c] ELSE c
lower_ch(c) == IF c \in DOMAIN to_lower THEN to_lower[c] ELSE c

\* faulty variant: a case-sensitive comparison
upper_NoOp(s) == s
upper(s) == [i \in 1..Len(s) |-> upper_ch(s[i])]
lower(s) == [i \in 1..Len(s) |-> lower_ch(s[i])]

\* ------------------------------------------------------------------
\* Challenge generator
\* ------------------------------------------------------------------
\* The outputs of the random source: one index into the alphabet per
\* character, random.choice(seq) == seq[k] with k in range(len(seq)).
\* The model samples MaxSeed index sequences out of len(seq)^length.
RandomDraws(n, length) ==
    { [i \in 1..length |-> (11 * s + 7 * i) % n] : s \in 1..MaxSeed }

generate_captcha_text(draws) ==
    [i \in 1..Len(draws) |-> ALLOWED_CHARS[draws[i] + 1]]

\* the raster image: fixed dimensions, one glyph per character of the text
render_captcha_image(t) ==
    [width |-> CAPTCHA_WIDTH, height |-> CAPTCHA_HEIGHT, glyphs |-> t]

Draws == RandomDraws(Len(ALLOWED_CHARS), CAPTCHA_LENGTH)
\* every text the sampled random source can produce
SampleTexts == { generate_captcha_text(d) : d \in Draws }

\* ------------------------------------------------------------------
\* CaptchaSession
\* ------------------------------------------------------------------
\* CaptchaSession.create: the fields it assigns, read at clock reading t
\* faulty variants: created_at not stamped; stamped with a rounded reading
create_NoStamp(draws, t) ==
    LET newtext == generate_captcha_text(draws)
    IN  [text       |-> Some(newtext),
         image      |-> Some(render_captcha_image(newtext)),
         created_at |-> None]
create_CoarseStamp(draws, t) ==
    LET newtext == generate_captcha_text(draws)
    IN  [text       |-> Some(newtext),
         image      |-> Some(render_captcha_image(newtext)),
         created_at |-> Some((t \div 2) * 2)]
create(draws, t) ==
    LET newtext == generate_captcha_text(draws)
    IN  [text       |-> Some(newtext),
         image      |-> Some(render_captcha_image(newtext)),
         created_at |-> Some(t)]

\* CaptchaSession.is_valid on fields txt, cat at clock reading t
\* faulty variants: age TTL already counts as expired; the text not tested
is_valid_NoTextCheck(txt, cat, t) ==
    IF ~TruthyNum(cat) THEN FALSE
    ELSE (t - Val(cat)) <= CAPTCHA_TTL_SECONDS
is_valid_Strict(txt, cat, t) ==
    IF ~TruthyStr(txt) \/ ~TruthyNum(cat) THEN FALSE
    ELSE (t - Val(cat)) < CAPTCHA_TTL_SECONDS
is_valid(txt, cat, t) ==
    IF ~TruthyStr(txt) \/ ~TruthyNum(cat) THEN FALSE
    ELSE (t - Val(cat)) <= CAPTCHA_TTL_SECONDS

\* outcome of calling a method on None (self.text.upper() with text None)
Raised == <<FALSE, "AttributeError">>

\* CaptchaSession.verify
\* faulty variants: the comparison made before the validity test; a prefix
\* of the text accepted
verify_CompareFirst(txt, cat, t, attempt) ==
    IF txt # None /\ upper(strip(attempt)) = upper(Val(txt)) THEN <<TRUE, "ok">>
    ELSE IF ~is_valid(txt, cat, t) THEN <<FALSE, "expired">>
    ELSE <<FALSE, "incorrect">>
verify_Prefix(txt, cat, t, attempt) ==
    IF ~is_valid(txt, cat, t) THEN <<FALSE, "expired">>
    ELSE IF txt = None THEN Raised
    ELSE IF LET a == upper(strip(attempt))
            IN  Len(a) <= Len(Val(txt)) /\ a = SubSeq(upper(Val(txt)), 1, Len(a))
         THEN <<TRUE, "ok">>
    ELSE <<FALSE, "incorrect">>
verify(txt, cat, t, attempt) ==
    IF ~is_valid(txt, cat, t) THEN <<FALSE, "expired">>
    ELSE IF txt = None THEN Raised
    ELSE IF upper(strip(attempt)) = upper(Val(txt)) THEN <<TRUE, "ok">>
    ELSE <<FALSE, "incorrect">>

\* ------------------------------------------------------------------
\* Credentials
\* ------------------------------------------------------------------
\* hashlib.sha256(p.encode("utf-8")).hexdigest(), as a collision-free digest
sha256(p) == <<"sha256", p>>

ADMIN == <<"a","d","m","i","n">>
USER == <<"u","s","e","r">>

\* DEMO_USERS.get(u)
\* faulty variant: an unknown user falls back to the first entry
DEMO_USERS_get_Default(u) ==
    IF u = USER THEN Some(sha256("qwertyUIOP1"))
    ELSE Some(sha256("Password123"))
DEMO_USERS_get(u) ==
    IF u = ADMIN THEN Some(sha256("Password123"))
    ELSE IF u = USER THEN Some(sha256("qwertyUIOP1"))
    ELSE None

\* ------------------------------------------------------------------
\* Inputs
\* ------------------------------------------------------------------
\* what the user can type into the username and password fields
Usernames == { <<" ">>, <<" ">> \o ADMIN \o <<" ">>, USER, <<"e","v","e">> }
Passwords == { "Password123" }

\* attempts built from a challenge text t: exact, other letter case,
\* surrounded by whitespace, whitespace inside, one character short
Variants(t) ==
    { t, lower(t), <<" ">> \o lower(t) \o <<"\t", "\n">>,
      <<"\n">> \o t \o <<" ">>,
      SubSeq(t, 1, 2) \o <<" ">> \o SubSeq(t, 3, Len(t)),
      SubSeq(t, 1, Len(t) - 1) }

\* attempts passed to verify(): variants of the stored text (of a sample
\* text when none is stored), every text the generator can produce, the
\* empty and the all-whitespace attempt
Attempts(txt) ==
    Variants(IF TruthyStr(txt) THEN Val(txt) ELSE CHOOSE t \in SampleTexts : TRUE)
    \cup SampleTexts \cup { <<>>, <<" ", " ">> }

\* what the user can type into the captcha field
CaptchaInputs == { <<" ">> \o lower(t) \o <<" ">> : t \in SampleTexts }
                 \cup { <<>> }

\* the clock advances to the last second of a TTL or to the first after it
\* faulty variant: the wall clock is also set back
TickSteps_Back == { 0 - CAPTCHA_TTL_SECONDS, CAPTCHA_TTL_SECONDS + 1 }
TickSteps == { CAPTCHA_TTL_SECONDS, CAPTCHA_TTL_SECONDS + 1 }

\* guesses counts the verify() calls the login handler has made on the
\* challenge the session holds (a new challenge starts at 0)
\*
\* what the last step did: the handler, the attempt handed to verify() and
\* what verify()/is_valid() returned, the message box shown, whether create()
\* ran (and the created_at it replaced) and whether the credential table was
\* consulted
Did(op, attempt, ret, msg, created, creds) ==
    [op |-> op, attempt |-> attempt, ret |-> ret, msg |-> msg,
     created |-> created, creds |-> creds,
     \* the stamp that a create() of this step replaced
     before |-> IF created THEN created_at ELSE None]

\* ------------------------------------------------------------------
\* Initial state: CaptchaSession() constructed and the widgets built
\* (LoginApp.__init__ up to _build_ui), before the first _new_captcha()
\* ------------------------------------------------------------------
Init ==
    /\ text = None
    /\ image = None
    /\ created_at = None
    /\ username_var = <<>>
    /\ password_var = ""
    /\ captcha_var = <<>>
    /\ running = FALSE
    /\ now = InitTime
    /\ ticks = 0
    /\ last = Did("init", None, None, "", FALSE, FALSE)
    /\ guesses = 0

\* ------------------------------------------------------------------
\* LoginApp handlers
\* ------------------------------------------------------------------
\* LoginApp._new_captcha: create(), redraw, clear the captcha input (the
\* status label is presentation only and is not modelled)
\* faulty variant: the captcha input keeps what was typed
new_captcha_KeepInput(draws) ==
    LET c == create(draws, now)
    IN  /\ text' = c.text
        /\ image' = c.image
        /\ created_at' = c.created_at
        /\ guesses' = 0
        /\ UNCHANGED captcha_var
new_captcha(draws) ==
    LET c == create(draws, now)
    IN  /\ text' = c.text
        /\ image' = c.image
        /\ created_at' = c.created_at
        /\ guesses' = 0
        /\ captcha_var' = <<>>

\* the call of _new_captcha() that ends LoginApp.__init__, then mainloop()
AppStart ==
    /\ ~running
    /\ \E draws \in Draws : new_captcha(draws)
    /\ running' = TRUE
    /\ last' = Did("start", None, None, "", TRUE, FALSE)
    /\ UNCHANGED <<username_var, password_var, now, ticks>>

\* "Refresh CAPTCHA" button
NewCaptcha ==
    /\ running
    /\ \E draws \in Draws : new_captcha(draws)
    /\ last' = Did("refresh", None, None, "", TRUE, FALSE)
    /\ UNCHANGED <<username_var, password_var, running, now, ticks>>

\* "Use Demo (autofill)" button
AutofillDemo ==
    /\ running
    /\ IF TruthyStr(text)
       THEN captcha_var' = Val(text)
       ELSE UNCHANGED captcha_var
    /\ last' = Did("autofill", None, None, "", FALSE, FALSE)
    /\ UNCHANGED <<session, username_var, password_var, running, now, ticks,
                   guesses>>

\* the user edits an entry field
TypeUsername ==
    /\ running
    /\ \E u \in Usernames : username_var' = u
    /\ last' = Did("type", None, None, "", FALSE, FALSE)
    /\ UNCHANGED <<session, password_var, captcha_var, running,
                   now, ticks, guesses>>

TypePassword ==
    /\ running
    /\ \E p \in Passwords : password_var' = p
    /\ last' = Did("type", None, None, "", FALSE, FALSE)
    /\ UNCHANGED <<session, username_var, captcha_var, running,
                   now, ticks, guesses>>

TypeCaptcha ==
    /\ running
    /\ \E c \in CaptchaInputs : captcha_var' = c
    /\ last' = Did("type", None, None, "", FALSE, FALSE)
    /\ UNCHANGED <<session, username_var, password_var, running,
                   now, ticks, guesses>>

\* faulty variant: a wrong captcha is only notified, the challenge stays
OnLogin_NotifyOnly ==
    /\ running
    /\ LET username == strip(username_var)
           password == password_var
           captcha_attempt == strip(captcha_var)
           r == verify(text, created_at, now, captcha_attempt)
           stored_hash == DEMO_USERS_get(username)
       IN  IF username = <<>> \/ password = ""
           THEN \* form validation: warn and return
                /\ last' = Did("login", None, None, "Missing fields",
                               FALSE, FALSE)
                /\ UNCHANGED <<session, captcha_var, password_var, guesses>>
           ELSE IF r = Raised
           THEN \* the exception leaves the handler before any assignment
                /\ last' = Did("login", Some(captcha_attempt), Some(r),
                               "Traceback", FALSE, FALSE)
                /\ guesses' = guesses + 1
                /\ UNCHANGED <<session, captcha_var, password_var>>
           ELSE IF r = <<FALSE, "incorrect">>
           THEN /\ last' = Did("login", Some(captcha_attempt), Some(r),
                               "CAPTCHA invalid", FALSE, FALSE)
                /\ guesses' = guesses + 1
                /\ UNCHANGED <<session, captcha_var, password_var>>
           ELSE IF ~r[1]
           THEN \* captcha expired: notify, rotate, return
                /\ \E draws \in Draws : new_captcha(draws)
                /\ last' = Did("login", Some(captcha_attempt), Some(r),
                               IF r[2] = "expired" THEN "CAPTCHA expired"
                                                   ELSE "CAPTCHA invalid",
                               TRUE, FALSE)
                /\ UNCHANGED password_var
           ELSE IF stored_hash # None /\ Val(stored_hash) = sha256(password)
           THEN \* login success: invalidate the used captcha
                /\ text' = None
                /\ password_var' = ""
                /\ guesses' = guesses + 1
                /\ last' = Did("login", Some(captcha_attempt), Some(r),
                               "Login successful", FALSE, TRUE)
                /\ UNCHANGED <<image, created_at, captcha_var>>
           ELSE \* wrong credentials: rotate the captcha
                /\ \E draws \in Draws : new_captcha(draws)
                /\ last' = Did("login", Some(captcha_attempt), Some(r),
                               "Login failed", TRUE, TRUE)
                /\ UNCHANGED password_var
    /\ UNCHANGED <<username_var, running, now, ticks>>
\* LoginApp._on_login ("Login" button, <Return>)
OnLogin ==
    /\ running
    /\ LET username == strip(username_var)
           password == password_var
           captcha_attempt == strip(captcha_var)
           r == verify(text, created_at, now, captcha_attempt)
           stored_hash == DEMO_USERS_get(username)
       IN  IF username = <<>> \/ password = ""
           THEN \* form validation: warn and return
                /\ last' = Did("login", None, None, "Missing fields",
                               FALSE, FALSE)
                /\ UNCHANGED <<session, captcha_var, password_var, guesses>>
           ELSE IF r = Raised
           THEN \* the exception leaves the handler before any assignment
                /\ last' = Did("login", Some(captcha_attempt), Some(r),
                               "Traceback", FALSE, FALSE)
                /\ guesses' = guesses + 1
                /\ UNCHANGED <<session, captcha_var, password_var>>
           ELSE IF ~r[1]
           THEN \* captcha expired or incorrect: notify, rotate, return
                /\ \E draws \in Draws : new_captcha(draws)
                /\ last' = Did("login", Some(captcha_attempt), Some(r),
                               IF r[2] = "expired" THEN "CAPTCHA expired"
                                                   ELSE "CAPTCHA invalid",
                               TRUE, FALSE)
                /\ UNCHANGED password_var
           ELSE IF stored_hash # None /\ Val(stored_hash) = sha256(password)
           THEN \* login success: invalidate the used captcha
                /\ text' = None
                /\ password_var' = ""
                /\ guesses' = guesses + 1
                /\ last' = Did("login", Some(captcha_attempt), Some(r),
                               "Login successful", FALSE, TRUE)
                /\ UNCHANGED <<image, created_at, captcha_var>>
           ELSE \* wrong credentials: rotate the captcha
                /\ \E draws \in Draws : new_captcha(draws)
                /\ last' = Did("login", Some(captcha_attempt), Some(r),
                               "Login failed", TRUE, TRUE)
                /\ UNCHANGED password_var
    /\ UNCHANGED <<username_var, running, now, ticks>>

\* ------------------------------------------------------------------
\* Direct calls on the session object (any caller of CaptchaSession)
\* ------------------------------------------------------------------
IsValidCall ==
    /\ last' = Did("is_valid", None, Some(is_valid(text, created_at, now)),
                   "", FALSE, FALSE)
    /\ UNCHANGED <<session, username_var, password_var, captcha_var,
                   running, now, ticks, guesses>>

\* faulty variant: a successful verify() clears the text itself
VerifyCall_Consuming ==
    /\ \E a \in Attempts(text) :
          LET r == verify(text, created_at, now, a)
          IN  /\ last' = Did("verify", Some(a), Some(r), "", FALSE, FALSE)
              /\ text' = IF r[1] THEN None ELSE text
    /\ UNCHANGED <<image, created_at, username_var, password_var, captcha_var,
                   running, now, ticks, guesses>>
VerifyCall ==
    /\ \E a \in Attempts(text) :
          last' = Did("verify", Some(a),
                      Some(verify(text, created_at, now, a)), "", FALSE, FALSE)
    /\ UNCHANGED <<session, username_var, password_var, captcha_var,
                   running, now, ticks, guesses>>

\* ------------------------------------------------------------------
\* The wall clock advances
\* ------------------------------------------------------------------
Tick ==
    /\ ticks < MaxTicks
    /\ \E d \in TickSteps : now' = now + d
    /\ ticks' = ticks + 1
    /\ last' = Did("tick", None, None, "", FALSE, FALSE)
    /\ UNCHANGED guesses
    /\ UNCHANGED <<session, username_var, password_var, captcha_var,
                   running>>

Next ==
    \/ AppStart
    \/ NewCaptcha
    \/ AutofillDemo
    \/ TypeUsername
    \/ TypePassword
    \/ TypeCaptcha
    \/ OnLogin
    \/ IsValidCall
    \/ VerifyCall
    \/ Tick

Spec == Init /\ [][Next]_vars

\* ------------------------------------------------------------------
\* Vocabulary of the properties
\* ------------------------------------------------------------------
OK == Some(<<TRUE, "ok">>)
EXPIRED == Some(<<FALSE, "expired">>)
INCORRECT == Some(<<FALSE, "incorrect">>)

\* the step taken called verify() / is_valid() / create()
VerifyCalled == last'.attempt # None
IsValidCalled == last'.op = "is_valid"
CreateCalled == last'.created

\* a and b are the same character up to letter case
LetterPairs == { <<ascii_lowercase[k], ascii_uppercase[k]>> : k \in 1..26 }

SameLetter(a, b) ==
    \/ a = b
    \/ <<a, b>> \in LetterPairs
    \/ <<b, a>> \in LetterPairs

AllWhitespace(s) == \A i \in 1..Len(s) : s[i] \in whitespace

\* a is b with whitespace put around it and letters changed in case only
Surrounds(a, b) ==
    \E i \in 0..Len(a) :
       /\ i + Len(b) <= Len(a)
       /\ AllWhitespace(SubSeq(a, 1, i))
       /\ AllWhitespace(SubSeq(a, i + Len(b) + 1, Len(a)))
       /\ \A k \in 1..Len(b) : SameLetter(a[i + k], b[k])

\* s between its first and its last character that is not whitespace
Core(s) ==
    LET inked == {i \in 1..Len(s) : s[i] \notin whitespace}
    IN  IF inked = {} THEN <<>>
        ELSE SubSeq(s, CHOOSE i \in inked : \A j \in inked : i <= j,
                       CHOOSE i \in inked : \A j \in inked : i >= j)

\* a and b differ only in letter case or surrounding whitespace
SameAttempt(a, b) ==
    LET ca == Core(a)
        cb == Core(b)
    IN  /\ Len(ca) = Len(cb)
        /\ \A k \in 1..Len(ca) : SameLetter(ca[k], cb[k])

\* every attempt the model hands to verify(), and for each of them the
\* attempts that differ from it only in letter case or surrounding whitespace
AllAttempts == Attempts(None) \cup UNION { Attempts(Some(t)) : t \in SampleTexts }
SameAttempts == [a \in AllAttempts |-> {b \in AllAttempts : SameAttempt(a, b)}]

\* C1: whenever the session holds no usable challenge at the call (never
\* created, text cleared, TTL elapsed, or is_valid() false for any other
\* reason), verify(attempt) returns (False, "expired") for every attempt; it
\* returns neither "ok" nor "incorrect" and does not raise.
C1_InvalidIsExpired ==
    [][ ( /\ VerifyCalled
          /\ \/ text = None
             \/ created_at = None
             \/ now - Val(created_at) > 120
             \/ ~is_valid(text, created_at, now) )
        => last'.ret = EXPIRED ]_vars

\* verify(stored text) was answered "expired" on a challenge older than TTL
C1_Witness ==
    /\ last.op = "verify"
    /\ text # None /\ last.attempt = text
    /\ created_at # None /\ now - Val(created_at) > 120
    /\ last.ret = EXPIRED

\* C2: is_valid() returns true exactly when a challenge exists and
\* current_time - created_at <= 120, age 120 included; it returns false in
\* every other state, in particular before any create().
C2_IsValidExactly ==
    [][ IsValidCalled =>
          last'.ret = Some( /\ text # None
                            /\ created_at # None
                            /\ now - Val(created_at) <= 120 ) ]_vars

\* is_valid() answered true at age exactly TTL
C2_Witness ==
    /\ last.op = "is_valid"
    /\ last.ret = Some(TRUE)
    /\ now - Val(created_at) = 120

\* C3: for a challenge created at T and still stored, verify(stored text) at
\* time t yields (True, "ok") when t - T <= 120 and (False, "expired") when
\* t - T > 120.
C3_StoredTextByAge ==
    [][ (VerifyCalled /\ text # None /\ created_at # None
                      /\ last'.attempt = text)
        => last'.ret = IF now - Val(created_at) <= 120 THEN OK ELSE EXPIRED ]_vars

\* verify(stored text) was answered "ok" at age exactly TTL
C3_Witness ==
    /\ last.op = "verify"
    /\ text # None /\ last.attempt = text
    /\ now - Val(created_at) = 120
    /\ last.ret = OK

\* C4: on a valid challenge, an attempt whose trimmed, case-folded form
\* differs from the stored text yields (False, "incorrect"), never "expired"
\* and never "ok".
C4_MismatchIsIncorrect ==
    [][ ( /\ VerifyCalled
          /\ text # None /\ created_at # None
          /\ now - Val(created_at) <= 120
          /\ lower(rstrip(lstrip(Val(last'.attempt)))) # lower(Val(text)) )
        => last'.ret = INCORRECT ]_vars

\* a wrong attempt of the right length was answered "incorrect"
C4_Witness ==
    /\ last.op = "verify"
    /\ text # None
    /\ Len(Val(last.attempt)) = Len(Val(text))
    /\ \E i \in 1..Len(Val(text)) : ~SameLetter(Val(last.attempt)[i], Val(text)[i])
    /\ last.ret = INCORRECT

\* C5: on a valid challenge verify(attempt) yields "ok" if and only if the
\* attempt is the stored text up to letter case and surrounding whitespace;
\* two attempts that differ only in letter case or surrounding whitespace get
\* the same outcome.
C5_OkIffSameUpToCaseAndSpace ==
    [][ VerifyCalled =>
          /\ (text # None /\ created_at # None /\ now - Val(created_at) <= 120)
             => ((last'.ret = OK) <=> Surrounds(Val(last'.attempt), Val(text)))
          /\ Val(last'.attempt) \in AllAttempts =>
                \A b \in SameAttempts[Val(last'.attempt)] :
                   Some(verify(text, created_at, now, b)) = last'.ret ]_vars

\* a lower-case attempt with whitespace around it was answered "ok"
C5_Witness ==
    /\ last.op = "verify"
    /\ text # None
    /\ last.attempt # text
    /\ Val(last.attempt) # strip(Val(last.attempt))
    /\ Val(last.attempt) # upper(Val(last.attempt))
    /\ last.ret = OK

\* C6: verify(attempt) and is_valid() leave text, image and created_at as
\* they were, for every attempt and outcome; the session changes only in
\* steps that call create() or in the login handler's clearing of the text.
C6_VerifyIsReadOnly ==
    [][ /\ last'.op \in {"verify", "is_valid"} => session' = session
        /\ session' # session =>
              \/ CreateCalled
              \/ last'.op = "login" /\ last'.msg = "Login successful" ]_vars

\* verify() answered "ok" and the challenge is still stored
C6_Witness ==
    /\ last.op = "verify"
    /\ last.ret = OK
    /\ text # None /\ last.attempt = text
    /\ image # None /\ created_at # None

\* C7: in every reachable state text, image and created_at are all unset or
\* all set, and a stored text is never empty.
C7_NoPartialState ==
    /\ (text = None) <=> (image = None)
    /\ (text = None) <=> (created_at = None)
    /\ text # None => Val(text) # <<>>

\* C8: create() succeeds from any prior state: it replaces text, image and
\* created_at by a fresh challenge stamped with the current time; right
\* after, is_valid() is true and verify(new text) yields "ok", and the
\* previous text is not accepted unless it equals the new one.
C8_CreateGivesFreshValid ==
    [][ CreateCalled =>
          /\ text' # None /\ image' # None
          /\ Val(image').glyphs = Val(text')
          /\ created_at' = Some(now')
          /\ is_valid(text', created_at', now')
          /\ Some(verify(text', created_at', now', Val(text'))) = OK
          /\ (text # None /\ text # text')
             => Some(verify(text', created_at', now', Val(text))) # OK ]_vars

\* the login handler created a challenge over a consumed or expired one
C8_Witness ==
    /\ last.op = "login"
    /\ last.ret = EXPIRED
    /\ last.created
    /\ is_valid(text, created_at, now)

\* C9: every challenge text has length exactly 5 and every character is an
\* uppercase letter or digit that is none of 0, O, 1, I, J, L.
C9_TextInAlphabet ==
    text # None =>
       /\ Len(Val(text)) = 5
       /\ \A i \in 1..Len(Val(text)) :
             /\ Val(text)[i] \in Range(ascii_uppercase) \cup Range(digits)
             /\ Val(text)[i] \notin {"0", "O", "1", "I", "J", "L"}

\* a challenge text holding both a letter and a digit is stored
C9_Witness ==
    /\ text # None
    /\ \E i \in 1..Len(Val(text)) : Val(text)[i] \in Range(digits)
    /\ \E i \in 1..Len(Val(text)) : Val(text)[i] \in Range(ascii_uppercase)

\* C10 as stated: a create() on a session that already holds the stamp of the
\* previous create() produces a different created_at.
C10_DistinctStamps ==
    [][ (CreateCalled /\ created_at # None) => created_at' # created_at ]_vars

\* C10 amended: create() stamps created_at with the clock reading of the
\* call, so two consecutive create() calls produce different created_at
\* values exactly when the clock reading changed between them.
C10_StampIsClockReading ==
    [][ CreateCalled =>
          /\ created_at' = Some(now')
          /\ created_at # None =>
                ((created_at' # created_at) <=> (now' # Val(created_at))) ]_vars

\* a second create() on a later clock reading produced a later created_at
C10_Witness ==
    /\ last.created
    /\ last.before # None
    /\ created_at = Some(now)
    /\ Val(created_at) > Val(last.before)

\* the step taken was the login handler / it reported a successful login
LoginCalled == last'.op = "login"
LoginSucceeded == last'.op = "login" /\ last'.msg = "Login successful"

\* the demo accounts: user name and the password whose hash is stored
Accounts == { <<ADMIN, "Password123">>, <<USER, "qwertyUIOP1">> }

\* the session holds a challenge that has not outlived the TTL
Active == text # None /\ created_at # None /\ now - Val(created_at) <= 120

\* C11: the login handler reports a successful login only if, in that same
\* event, verify() returned (True, "ok") on a valid challenge and the trimmed
\* user name with the password is an entry of the credential table; when
\* verify() fails (expired or incorrect) the credentials are not checked and
\* no success is reported, whatever the credentials.
C11_SuccessNeedsCaptchaAndCredentials ==
    [][ LoginCalled =>
          /\ LoginSucceeded =>
                /\ last'.ret = OK
                /\ Active
                /\ Surrounds(captcha_var, Val(text))
                /\ <<Core(username_var), password_var>> \in Accounts
                /\ last'.creds
          /\ last'.ret \in {EXPIRED, INCORRECT} =>
                /\ ~last'.creds
                /\ ~LoginSucceeded ]_vars

\* a login with admin's credentials was refused on a wrong captcha, without
\* the credential table being consulted
C11_Witness ==
    /\ last.op = "login"
    /\ last.ret = INCORRECT
    /\ ~last.creds
    /\ <<Core(username_var), password_var>> \in Accounts

\* the challenge was used by a successful login: its text is cleared
Consumed == text = None /\ created_at # None

\* C12: a successful login consumes the challenge: is_valid() is false from
\* then on while no create() runs, the next login with a user name and a
\* password is answered "expired" whatever the captcha attempt and then
\* creates a new challenge; only a successful login consumes a challenge.
C12_ConsumedUntilCreate ==
    [][ /\ LoginSucceeded =>
              text' = None /\ ~is_valid(text', created_at', now')
        /\ (Consumed /\ ~CreateCalled) =>
              text' = None /\ ~is_valid(text', created_at', now')
        /\ (Consumed /\ LoginCalled /\ Core(username_var) # <<>>
                     /\ password_var # "") =>
              /\ last'.ret = EXPIRED
              /\ last'.created
              /\ text' # None
        /\ (~Consumed /\ text' = None /\ created_at' # None) =>
              LoginSucceeded ]_vars

\* a login was answered "expired" although the stamp it replaced was still
\* within the TTL and the captcha field held the text that had been correct
C12_Witness ==
    /\ last.op = "login"
    /\ last.ret = EXPIRED
    /\ last.created
    /\ last.before # None /\ now - Val(last.before) <= 120
    /\ Val(last.attempt) \in SampleTexts

\* the login handler called verify() and did not report a success
LoginFailedAfterVerify ==
    last'.op = "login" /\ last'.attempt # None /\ last'.msg # "Login successful"

C15_InvalidUntilCreate ==
    [][ /\ (~Active /\ ~CreateCalled) =>
              /\ ~(text' # None /\ created_at' # None
                                /\ now' - Val(created_at') <= 120)
              /\ ~is_valid(text', created_at', now')
              /\ VerifyCalled => last'.ret = EXPIRED
              /\ IsValidCalled => last'.ret = Some(FALSE)
        /\ (~is_valid(text, created_at, now)
               /\ is_valid(text', created_at', now')) => CreateCalled ]_vars

\* verify(stored text) is still answered "expired" after the clock advanced
\* once more over a challenge that had already expired
C15_Witness ==
    /\ last.op = "verify"
    /\ last.ret = EXPIRED
    /\ text # None /\ last.attempt = text
    /\ created_at # None
    /\ now - Val(created_at) = 2 * (120 + 1)

\* C16: a login with a user name that is empty after trimming, or with an
\* empty password, returns without calling verify(), without consulting the
\* credential table and without rotating or clearing the challenge: text,
\* image, created_at and the captcha input stay as they were.
C16_MissingFieldsTouchNothing ==
    [][ (LoginCalled /\ (Core(username_var) = <<>> \/ password_var = "")) =>
          /\ last'.msg = "Missing fields"
          /\ last'.attempt = None /\ last'.ret = None
          /\ ~last'.creds
          /\ ~last'.created
          /\ session' = session
          /\ captcha_var' = captcha_var
          /\ guesses' = guesses ]_vars

\* a login with a blank user name, a password and the right captcha typed
\* was turned away and the challenge is still the one shown
C16_Witness ==
    /\ last.op = "login"
    /\ last.msg = "Missing fields"
    /\ username_var = <<" ">>
    /\ password_var # ""
    /\ text # None /\ captcha_var = Val(text)
    /\ is_valid(text, created_at, now)

====
